---- MODULE Spec2Model ----
(***************************************************************************)
(* A model of the two components of the repository:                       *)
(*   emxemis/camsInfo.py     readCams and its helpers (emission tables)    *)
(*   emxplots/plotdiurnal.py makediurnal (mean diurnal profiles)           *)
(*                                                                         *)
(* Numbers.  Emission values and observations are integers, on which the   *)
(* sums of the code are exact.  Coordinates are integers counted in units  *)
(* of 0.5e-6 degree, so that the six decimals nicefloat keeps are the      *)
(* multiples of NiceUnit and a half cell of a rounded spacing is a whole   *)
(* number of units.  A mean or a percentage is the pair of its numerator   *)
(* and denominator.                                                        *)
(***************************************************************************)
EXTENDS Integers, Sequences, FiniteSets, TLC

VARIABLES
    \* ---- readCams (camsInfo.py)
    ifile,        \* the table in the file ifile: [sec_key, cols, rows]
    df,           \* the data frame df (empty before the read and after del df)
    arg_wanted,   \* the wanted_poll argument as passed: <<>> (None) or <<name>>
    wanted_poll,  \* the local wanted_poll (line 89 resets it)
    get_vals,     \* the get_vals argument
    pc,           \* position in readCams
    err,          \* the exception that ended the call ("" while none)
    used_polls,   \* the list used_polls
    iso3s,        \* srcEmis['iso3s'] (a set: the order is not used)
    srcs,         \* srcEmis['srcs']
    grid,         \* lons, lats, dx, dy, xmin, xmax, ymin, ymax, nlons, nlats
    res_polls,    \* srcEmis['polls']
    srcEmis,      \* srcEmis[poll][iso3][src] = [sum, vals]
    snap2,        \* srcEmis['snap2'][poll][iso3]
    pi,           \* index in used_polls of the pollutant being processed
    n,            \* rows of that pollutant processed so far
    \* ---- makediurnal (plotdiurnal.py)
    nobs,         \* len(obs)
    bad,          \* the indices of obs that hold an invalid sample
    badkind,      \* what the invalid samples are: "neg", "nan" or "inf"
    nmod,         \* len(mod): 0 when no modelled series is passed
    dstart_arg,   \* the dstart argument as passed: <<>> (left out) or <<d>>
    dend_arg,     \* the dend argument as passed
    dpc,          \* position in makediurnal
    o24,          \* the sums of the observed values per hour of day
    n24,          \* the counts per hour of day
    m24,          \* the sums of the modelled values per hour of day
    ndays,        \* the days a full capture would have
    h,            \* the hour-of-day counter
    doy,          \* the day counter
    dn,           \* the index n of the next sample of obs
    ret           \* what makediurnal returns

cvars == <<ifile, df, arg_wanted, wanted_poll, get_vals, pc, err, used_polls,
           iso3s, srcs, grid, res_polls, srcEmis, snap2, pi, n>>
dvars == <<nobs, bad, badkind, nmod, dstart_arg, dend_arg, dpc, o24, n24, m24,
           ndays, h, doy, dn, ret>>
vars == <<cvars, dvars>>

(***************************************************************************)
(* Bounds of the model                                                     *)
(***************************************************************************)
\* rows of a table of the emission family
MaxRows == 2
\* distinct coordinates per axis of a table of the grid family
MaxPts == 3
\* largest spacing of the grid family, in units
MaxStep == 6
\* westernmost longitudes of the grid family are -MaxX0 .. MaxX0
MaxX0 == 3
\* days of a series of the short family of makediurnal
MaxDays == 3

(***************************************************************************)
(* Generic helpers                                                         *)
(***************************************************************************)
Abs(a) == IF a < 0 THEN -a ELSE a

Range(s) == {s[i] : i \in DOMAIN s}

RECURSIVE SumSet(_, _)
\* the sum of f[e] over the elements e of the finite set S
SumSet(S, f) ==
    IF S = {} THEN 0
    ELSE LET e == CHOOSE e \in S : TRUE IN f[e] + SumSet(S \ {e}, f)

\* Python's int(a/b) for b > 0: the quotient truncated towards zero
IntDiv(a, b) == IF a >= 0 THEN a \div b ELSE -((-a) \div b)

Min(S) == CHOOSE m \in S : \A e \in S : m <= e

RECURSIVE Sorted(_)
\* np.unique: the sorted sequence of the distinct values of S
Sorted(S) == IF S = {} THEN <<>> ELSE <<Min(S)>> \o Sorted(S \ {Min(S)})

(***************************************************************************)
(* camsInfo.py: constants and pure helpers                                 *)
(***************************************************************************)
polls == <<"CO", "NH3", "NMVOC", "NOX", "PM10", "PM2_5", "PMc", "SO2">>

\* the value 1e-6, the last decimal nicefloat keeps, in coordinate units
NiceUnit == 2

\* nicefloat: float('%12.6f' % x) rounds x to six decimals, the nearest
\* multiple of NiceUnit, an exact tie going to the even sixth decimal
nicefloat(x) ==
    LET q == x \div NiceUnit
        r == x % NiceUnit
    IN  IF 2 * r < NiceUnit THEN q * NiceUnit
        ELSE IF 2 * r > NiceUnit THEN (q + 1) * NiceUnit
        ELSE IF q % 2 = 0 THEN q * NiceUnit ELSE (q + 1) * NiceUnit

DigitChar == <<"0", "1", "2", "3", "4", "5", "6", "7", "8", "9">>

RECURSIVE Digits(_)
Digits(k) == IF k < 10 THEN <<DigitChar[k + 1]>>
             ELSE Digits(k \div 10) \o <<DigitChar[(k % 10) + 1]>>

\* '%2.2d' % sec for sec >= 0: at least two digits, zero padded
TwoDigit(sec) == IF sec < 10 THEN <<"0">> \o Digits(sec) ELSE Digits(sec)

\* src_name: a name is the sequence of its characters
src_name(sec_key, sec, typ) ==
    IF sec_key = "SNAP" THEN TwoDigit(sec) \o <<":", typ>>
    ELSE <<sec, ":", typ>>

EurTot == "EurTot"
countryTot == <<"S", "u", "m", ":", "s", "e", "c", "s">>
CA == <<"C", ":", "A">>

\* poll.startswith('PM'), over the names a pollutant can have here
StartsWithPM(poll) == poll \in {"PM", "PM10", "PM2_5", "PMc"}

\* lines 84-88: the working list of pollutants
UsedPollsNoPMc(wp) ==
    IF wp = <<"PM">> THEN <<"PM2_5", "PM10", "PMc">>
    ELSE IF wp # <<>> THEN <<wp[1]>>
    ELSE polls
UsedPolls(wp) ==
    IF wp = <<"PMc">> \/ wp = <<"PM">> THEN <<"PM2_5", "PM10", "PMc">>
    ELSE IF wp # <<>> THEN <<wp[1]>>
    ELSE polls

\* line 93: df['PMc'] = df['PM10'] - df['PM2_5'], for one row
DerivePMcSwapped(val) == val["PM2_5"] - val["PM10"]
DerivePMc(val) == val["PM10"] - val["PM2_5"]

\* check_ranges: TRUE when the assertion of line 73 passes.  dmin and dmax
\* start at 999 and -999 degrees; the tolerance 1e-9 is NiceUnit/1000 units.
check_ranges(coords) ==
    LET gaps == {coords[i] - coords[i - 1] : i \in 2..Len(coords)}
        d0   == 999 * 1000000 * NiceUnit
        dmin == Min(gaps \cup {d0})
        dmax == -Min({-g : g \in gaps} \cup {d0})
    IN  Abs(dmax - dmin) * 1000 < NiceUnit

\* lines 136-139: an edge of the grid, half a cell outside the outermost centre
GridEdge(c, halfcell) == nicefloat(c + halfcell)

\* lines 140-141: the number of columns (rows) of the grid
GridSizeExact(lo, hi, d) == IntDiv(hi - lo, d)
GridSize(lo, hi, d) == IntDiv(hi - lo, d) + 1

\* lines 191-192: the column (row) of a coordinate
CellIndex(c, lo, d) == IntDiv(c - lo, d)

\* np.zeros([nlats, nlons])
Zeros(nlats, nlons) == [iy \in 0..(nlats - 1) |-> [ix \in 0..(nlons - 1) |-> 0]]

\* lines 171-180: the zeroed records of one pollutant.  The lazy variant
\* creates a record only for what some row will add to.
ZeroEmisLazy(cs, ss, gv, nlats, nlons) ==
    LET rec == IF gv THEN [sum |-> 0, vals |-> Zeros(nlats, nlons)]
               ELSE [sum |-> 0]
        used(c, s) ==
            \E i \in DOMAIN df.rows :
                /\ c \in {df.rows[i].iso3, EurTot}
                /\ s \in {src_name(df.sec_key, df.rows[i].sec, df.rows[i].typ),
                          countryTot}
    IN  [iso3 \in cs |-> [src \in {s \in ss : used(iso3, s)} |-> rec]]
ZeroEmis(cs, ss, gv, nlats, nlons) ==
    LET rec == IF gv THEN [sum |-> 0, vals |-> Zeros(nlats, nlons)]
               ELSE [sum |-> 0]
    IN  [iso3 \in cs |-> [src \in ss |-> rec]]

\* E[iso3][src]['sum'] += x
AddSum(E, iso3, src, x) ==
    [E EXCEPT ![iso3][src].sum = @ + x]

\* lines 205-208: the four sums a row adds to, for one pollutant's records E
AddSumsNoTotal(E, iso3, src, x) ==
    AddSum(AddSum(AddSum(E, iso3, src, x), iso3, countryTot, x), EurTot, src, x)
AddSums(E, iso3, src, x) ==
    AddSum(AddSum(AddSum(AddSum(E, iso3, src, x),
                         iso3, countryTot, x),
                  EurTot, src, x),
           EurTot, countryTot, x)

\* Python's index into an axis of length len: negative indices count from
\* the end; -1 stands for an IndexError
PyIndex(i, len) == IF 0 <= i /\ i < len THEN i
                   ELSE IF -len <= i /\ i < 0 THEN i + len
                   ELSE -1

\* line 214: E[iso3][src]['vals'][iy,ix] += x (iy, ix already normalised)
AddCellTotalToo(E, iso3, src, iy, ix, x) ==
    [E EXCEPT ![iso3][src].vals[iy][ix] = @ + x,
              ![EurTot][src].vals[iy][ix] = @ + x]
AddCell(E, iso3, src, iy, ix, x) ==
    [E EXCEPT ![iso3][src].vals[iy][ix] = @ + x]

(***************************************************************************)
(* readCams: the inputs                                                    *)
(***************************************************************************)
ColsStd == {"CH4", "CO", "NH3", "NMVOC", "NOX", "PM10", "PM2_5", "SO2"}

\* the pollutant columns a file can have: the usual ones, with a PMc column,
\* without SO2, without PM10
ColsMenu == {ColsStd, ColsStd \cup {"PMc"}, ColsStd \ {"SO2"}, ColsStd \ {"PM10"}}

Val1 == [CH4 |-> 9, CO |-> 1, NH3 |-> 2, NMVOC |-> 3, NOX |-> 5,
         PM10 |-> 10, PM2_5 |-> 4, SO2 |-> 7, PMc |-> 8]
Val2 == [CH4 |-> 1, CO |-> 0, NH3 |-> 1, NMVOC |-> 4, NOX |-> 3,
         PM10 |-> 3, PM2_5 |-> 5, SO2 |-> 1, PMc |-> 2]

MkRow(lon, lat, iso3, sec, typ, val, cols) ==
    [lon |-> lon, lat |-> lat, iso3 |-> iso3, sec |-> sec, typ |-> typ,
     val |-> [p \in cols |-> val[p]]]

\* the emission family: GNFR sectors, a row is one of four kinds at one of
\* two cell centres (0,0) and (4,4)
RowKinds == {<<"AAA", "C", "A", Val1>>, <<"AAA", "C", "A", Val2>>,
             <<"BBB", "B", "P", Val2>>, <<"BBB", "C", "A", Val2>>}

EmisRows(cols) ==
    {MkRow(4 * c, 4 * c, k[1], k[2], k[3], k[4], cols) :
        k \in RowKinds, c \in 0..1}

EmisTables ==
    UNION {[sec_key : {"GNFR_Sector"}, cols : {cols},
            rows : UNION {[1..m -> EmisRows(cols)] : m \in 1..MaxRows}] :
           cols \in ColsMenu}

\* the calls made on a table of the emission family: <<wanted_poll, get_vals>>
EmisCalls ==
    ({<<>>, <<"PM">>, <<"O3">>} \cup {<<polls[i]>> : i \in DOMAIN polls})
        \X {FALSE}
    \cup {<<"CO">>, <<"PM">>} \X {TRUE}

\* the grid family: SNAP sectors, one row per distinct longitude, on a
\* diagonal; irr = 1 (2) moves the last longitude (latitude) by one unit
GridRows(x0, sx, y0, sy, npts, irr) ==
    [i \in 1..npts |->
        MkRow(x0 + (i - 1) * sx + (IF irr = 1 /\ i = npts THEN 1 ELSE 0),
              y0 + (npts - i) * sy + (IF irr = 2 /\ i = 1 THEN 1 ELSE 0),
              "AAA", IF i % 2 = 1 THEN 2 ELSE 7, "A", Val1, ColsStd)]

GridTables ==
    {[sec_key |-> "SNAP", cols |-> ColsStd,
      rows |-> GridRows(x0, sx, y0, sy, npts, irr)] :
        x0 \in (-MaxX0)..MaxX0, sx \in 1..MaxStep, y0 \in 0..1,
        sy \in 1..MaxStep, npts \in 1..MaxPts, irr \in 0..2}

NoFrame == [sec_key |-> "", cols |-> {}, rows |-> <<>>]
NoGrid == [lons |-> <<>>, lats |-> <<>>, dx |-> 0, dy |-> 0,
           xmin |-> 0, xmax |-> 0, ymin |-> 0, ymax |-> 0,
           nlons |-> 0, nlats |-> 0]

Hours == 0..23

\* no call of makediurnal
DiurnalOff ==
    /\ nobs = 0 /\ bad = {} /\ badkind = "neg" /\ nmod = 0
    /\ dstart_arg = <<>> /\ dend_arg = <<>>
    /\ dpc = "off"
    /\ o24 = [g \in Hours |-> 0] /\ n24 = [g \in Hours |-> 0]
    /\ m24 = [g \in Hours |-> 0]
    /\ ndays = 0 /\ h = 0 /\ doy = 0 /\ dn = 0 /\ ret = <<>>

InitCams ==
    /\ \/ /\ ifile \in EmisTables
          /\ \E c \in EmisCalls : arg_wanted = c[1] /\ get_vals = c[2]
       \/ /\ ifile \in GridTables
          /\ arg_wanted = <<"CO">>
          /\ get_vals = TRUE
    /\ df = NoFrame
    /\ wanted_poll = arg_wanted
    /\ pc = "read"
    /\ err = ""
    /\ used_polls = <<>>
    /\ iso3s = {}
    /\ srcs = {}
    /\ grid = NoGrid
    /\ res_polls = <<>>
    /\ srcEmis = <<>>
    /\ snap2 = <<>>
    /\ pi = 0
    /\ n = 0
    /\ DiurnalOff

(***************************************************************************)
(* readCams: the steps                                                     *)
(***************************************************************************)
Abort(what) == pc' = "abort" /\ err' = what

\* line 81: df = pd.read_csv(ifile, sep=';')
ReadCsv ==
    /\ pc = "read"
    /\ df' = ifile
    /\ pc' = "select"
    /\ UNCHANGED <<ifile, arg_wanted, wanted_poll, get_vals, err, used_polls,
                   iso3s, srcs, grid, res_polls, srcEmis, snap2, pi, n, dvars>>

\* lines 84-95: the working pollutants, the derived PMc column, the check
\* that the wanted pollutant is a column
SelectPolls ==
    /\ pc = "select"
    /\ LET up == UsedPolls(wanted_poll)
           wp == IF wanted_poll = <<"PM">> THEN <<>> ELSE wanted_poll
       IN  /\ used_polls' = up
           /\ wanted_poll' = wp
           /\ IF "PMc" \in Range(up) /\ "PMc" \notin df.cols
              THEN IF {"PM10", "PM2_5"} \subseteq df.cols
                   THEN /\ df' = [df EXCEPT
                                    !.cols = @ \cup {"PMc"},
                                    !.rows = [i \in DOMAIN @ |->
                                       [@[i] EXCEPT !.val =
                                          [p \in df.cols \cup {"PMc"} |->
                                             IF p = "PMc"
                                             THEN DerivePMc(df.rows[i].val)
                                             ELSE df.rows[i].val[p]]]]]
                        /\ pc' = "lists"
                        /\ err' = err
                   ELSE /\ Abort("KeyError")
                        /\ df' = df
              ELSE /\ df' = df
                   /\ IF wp # <<>> /\ wp[1] \notin df.cols
                      THEN Abort("POLL not found")
                      ELSE pc' = "lists" /\ err' = err
    /\ UNCHANGED <<ifile, arg_wanted, get_vals, iso3s, srcs, grid, res_polls,
                   srcEmis, snap2, pi, n, dvars>>

\* lines 102-123: the countries and the source names, each with its aggregate
ListKeys ==
    /\ pc = "lists"
    /\ iso3s' = {df.rows[i].iso3 : i \in DOMAIN df.rows} \cup {EurTot}
    /\ srcs' = {src_name(df.sec_key, df.rows[i].sec, df.rows[i].typ) :
                   i \in DOMAIN df.rows} \cup {countryTot}
    /\ pc' = "grid"
    /\ UNCHANGED <<ifile, df, arg_wanted, wanted_poll, get_vals, err,
                   used_polls, grid, res_polls, srcEmis, snap2, pi, n, dvars>>

\* lines 130-161: the grid of the table, its checks, the result's header
GridSetup ==
    /\ pc = "grid"
    /\ LET lons == Sorted({df.rows[i].lon : i \in DOMAIN df.rows})
           lats == Sorted({df.rows[i].lat : i \in DOMAIN df.rows})
       IN  IF Len(lons) < 2 \/ Len(lats) < 2
           THEN Abort("IndexError") /\ UNCHANGED <<grid, res_polls>>
           ELSE
           LET dx == nicefloat(lons[2] - lons[1])
               dy == nicefloat(lats[2] - lats[1])
               xmin == GridEdge(lons[1], -(dx \div 2))
               xmax == GridEdge(lons[Len(lons)], dx \div 2)
               ymin == GridEdge(lats[1], -(dy \div 2))
               ymax == GridEdge(lats[Len(lats)], dy \div 2)
           IN  IF dx = 0 \/ dy = 0
               THEN Abort("ZeroDivisionError") /\ UNCHANGED <<grid, res_polls>>
               ELSE
               LET nlons == GridSize(xmin, xmax, dx)
                   nlats == GridSize(ymin, ymax, dy)
                   newxmax == xmin + nlons * dx
                   newymax == ymin + nlats * dy
                   g == [lons |-> lons, lats |-> lats, dx |-> dx, dy |-> dy,
                         xmin |-> xmin, xmax |-> xmax, ymin |-> ymin,
                         ymax |-> ymax, nlons |-> nlons, nlats |-> nlats]
               IN  IF ~(newxmax > xmax)
                   THEN Abort("x Coordinate problem")
                        /\ UNCHANGED <<grid, res_polls>>
                   ELSE IF ~(newymax > ymax)
                   THEN Abort("y Coordinate problem")
                        /\ UNCHANGED <<grid, res_polls>>
                   ELSE IF ~check_ranges(lons)
                   THEN Abort("IRREGULAR COORDS Lon")
                        /\ UNCHANGED <<grid, res_polls>>
                   ELSE IF ~check_ranges(lats)
                   THEN Abort("IRREGULAR COORDS Lat")
                        /\ UNCHANGED <<grid, res_polls>>
                   ELSE /\ grid' = g
                        /\ res_polls' = used_polls
                        /\ pc' = "poll"
                        /\ err' = err
    /\ UNCHANGED <<ifile, df, arg_wanted, wanted_poll, get_vals, used_polls,
                   iso3s, srcs, srcEmis, snap2, pi, n, dvars>>

\* f with key k set to v (a dict assignment d[k] = v)
SetKey(f, k, v) == [j \in DOMAIN f \cup {k} |-> IF j = k THEN v ELSE f[j]]

\* lines 163-181: the next pollutant of the loop, its column and its zeroed
\* records
InitPoll ==
    /\ pc = "poll"
    /\ pi < Len(used_polls)
    /\ LET poll == used_polls[pi + 1]
       IN  IF poll \notin df.cols
           THEN Abort("KeyError") /\ UNCHANGED <<srcEmis, snap2, pi, n>>
           ELSE /\ srcEmis' = SetKey(srcEmis, poll,
                       ZeroEmis(iso3s, srcs, get_vals, grid.nlats, grid.nlons))
                /\ snap2' = IF StartsWithPM(poll)
                            THEN SetKey(snap2, poll, [iso3 \in iso3s |-> 0])
                            ELSE snap2
                /\ pi' = pi + 1
                /\ n' = 0
                /\ pc' = IF Len(df.rows) = 0 THEN "poll" ELSE "rows"
                /\ err' = err
    /\ UNCHANGED <<ifile, df, arg_wanted, wanted_poll, get_vals, used_polls,
                   iso3s, srcs, grid, res_polls, dvars>>

\* lines 183-214: one row of the accumulation pass
AccumulateRow ==
    /\ pc = "rows"
    /\ n < Len(df.rows)
    /\ LET poll == used_polls[pi]
           row  == df.rows[n + 1]
           ix   == CellIndex(row.lon, grid.xmin, grid.dx)
           iy   == CellIndex(row.lat, grid.ymin, grid.dy)
           src  == src_name(df.sec_key, row.sec, row.typ)
           x    == row.val[poll]
           E    == srcEmis[poll]
           jx   == PyIndex(ix, grid.nlons)
           jy   == PyIndex(iy, grid.nlats)
       IN  IF ~(ix < grid.nlons /\ iy < grid.nlats)
           THEN Abort("OOPSXY") /\ UNCHANGED <<srcEmis, snap2, n>>
           ELSE IF \/ row.iso3 \notin DOMAIN E
                   \/ ~({src, countryTot} \subseteq DOMAIN E[row.iso3])
                   \/ ~({src, countryTot} \subseteq DOMAIN E[EurTot])
           THEN Abort("KeyError") /\ UNCHANGED <<srcEmis, snap2, n>>
           ELSE IF get_vals /\ (jx < 0 \/ jy < 0)
           THEN Abort("IndexError") /\ UNCHANGED <<srcEmis, snap2, n>>
           ELSE
           LET E1 == AddSums(E, row.iso3, src, x)
               E2 == IF get_vals THEN AddCell(E1, row.iso3, src, jy, jx, x)
                     ELSE E1
           IN  /\ srcEmis' = [srcEmis EXCEPT ![poll] = E2]
               /\ snap2' = IF src = CA /\ StartsWithPM(poll)
                           THEN [snap2 EXCEPT ![poll][row.iso3] = @ + x]
                           ELSE snap2
               /\ n' = n + 1
               /\ pc' = IF n + 1 = Len(df.rows) THEN "poll" ELSE "rows"
               /\ err' = err
    /\ UNCHANGED <<ifile, df, arg_wanted, wanted_poll, get_vals, used_polls,
                   iso3s, srcs, grid, res_polls, pi, dvars>>

\* the debug countries a caller passes: <<>> is None
DbgCountries == {<<>>, <<EurTot>>, <<"KWT">>}

\* lines 219-238: the table is released, the debug summary is printed for
\* dbgcc, the result is returned.  Whether (wanted_poll is 'PMc') holds for
\* an equal string rests on the interpreter's interning: isPMc is either.
Return(dbgcc, isPMc) ==
    /\ pc = "poll"
    /\ pi = Len(used_polls)
    /\ df' = NoFrame
    /\ LET up == IF dbgcc # <<>> /\ wanted_poll = <<"PMc">> /\ isPMc
                 THEN Append(used_polls, "PMc") ELSE used_polls
       IN  /\ used_polls' = up
           /\ IF dbgcc # <<>> /\ up # <<>> /\ dbgcc[1] \notin iso3s
              THEN Abort("KeyError")
              ELSE pc' = "done" /\ err' = err
    /\ UNCHANGED <<ifile, arg_wanted, wanted_poll, get_vals, iso3s, srcs, grid,
                   res_polls, srcEmis, snap2, pi, n, dvars>>

NextCams ==
    \/ ReadCsv
    \/ SelectPolls
    \/ ListKeys
    \/ GridSetup
    \/ InitPoll
    \/ AccumulateRow
    \/ \E dbgcc \in DbgCountries, isPMc \in BOOLEAN : Return(dbgcc, isPMc)

SpecCams == InitCams /\ [][NextCams]_vars

(***************************************************************************)
(* readCams: what the claims speak of                                      *)
(***************************************************************************)
\* the source name of row i of the file
RowSrc(i) == src_name(ifile.sec_key, ifile.rows[i].sec, ifile.rows[i].typ)

\* the value of pollutant p in row i of the file, PMc being PM10 - PM2_5 when
\* the file has no PMc column
RowVal(i, p) ==
    IF p \in ifile.cols THEN ifile.rows[i].val[p]
    ELSE ifile.rows[i].val["PM10"] - ifile.rows[i].val["PM2_5"]

\* row i counts for country c and source s (an aggregate takes every row)
Matches(i, c, s) ==
    /\ c = EurTot \/ ifile.rows[i].iso3 = c
    /\ s = countryTot \/ RowSrc(i) = s

RealCountries == iso3s \ {EurTot}
RealSrcs == srcs \ {countryTot}

\* the rows of pollutant p the accumulation pass has processed
Processed(p) ==
    IF pi > 0 /\ pi <= Len(res_polls) /\ res_polls[pi] = p
    THEN 1..n ELSE 1..Len(ifile.rows)

\* the sum of all cells of a grid
GridSum(v) ==
    SumSet(DOMAIN v, [iy \in DOMAIN v |-> SumSet(DOMAIN v[iy], v[iy])])

\* C1: in a returned result every pollutant of the working list, every
\* country (with EurTot) and every source (with Sum:secs) has a record with
\* a 'sum', which is 0 when no row of the file matches the triple
C1_AllKeysPresent ==
    pc = "done" =>
        \A p \in Range(res_polls), c \in iso3s, s \in srcs :
            /\ p \in DOMAIN srcEmis
            /\ c \in DOMAIN srcEmis[p]
            /\ s \in DOMAIN srcEmis[p][c]
            /\ "sum" \in DOMAIN srcEmis[p][c][s]
            /\ (\A i \in DOMAIN ifile.rows : ~Matches(i, c, s))
                   => srcEmis[p][c][s].sum = 0

\* a returned result with a country and a source that no row combines
C1_Witness ==
    /\ pc = "done"
    /\ \E p \in Range(res_polls), c \in RealCountries, s \in RealSrcs :
           /\ \A i \in DOMAIN ifile.rows : ~Matches(i, c, s)
           /\ srcEmis[p][c][s].sum = 0

\* C2: at every point of the accumulation pass and in the result, for every
\* pollutant, the total of EurTot over Sum:secs is the sum over the real
\* countries and real sources of their sums, and is the sum of the values of
\* the rows processed so far (each counted once)
C2_Conservation ==
    \A p \in DOMAIN srcEmis :
        LET tot == srcEmis[p][EurTot][countryTot].sum
            perCountry == [c \in RealCountries |->
                              SumSet(RealSrcs,
                                     [s \in RealSrcs |-> srcEmis[p][c][s].sum])]
        IN  /\ tot = SumSet(RealCountries, perCountry)
            /\ tot = SumSet(Processed(p),
                            [i \in Processed(p) |-> RowVal(i, p)])

\* a returned result that sums rows of two countries
C2_Witness ==
    /\ pc = "done"
    /\ Cardinality(RealCountries) >= 2
    /\ \E p \in DOMAIN srcEmis : srcEmis[p][EurTot][countryTot].sum > 0

\* the row of the example: lon 0, lat 0, AAA, sector C, type A, PM10 10,
\* PM2_5 4
IsExampleRow(r) ==
    /\ r.lon = 0 /\ r.lat = 0
    /\ r.iso3 = "AAA" /\ r.sec = "C" /\ r.typ = "A"
    /\ r.val["PM10"] = 10 /\ r.val["PM2_5"] = 4

\* the call of the example has ended: PMc wanted, on a file of GNFR sectors
\* with PM10 and PM2_5 and no PMc column
ExampleCallEnded ==
    /\ pc \in {"done", "abort"}
    /\ arg_wanted = <<"PMc">>
    /\ ifile.sec_key = "GNFR_Sector"
    /\ {"PM10", "PM2_5"} \subseteq ifile.cols
    /\ "PMc" \notin ifile.cols

\* C3 as stated: on the table of that single row, with PMc wanted, readCams
\* returns a result with PMc sum 6 for AAA, C:A and snap2 PM10 of AAA 6
C3_AsStated ==
    (/\ ExampleCallEnded
     /\ Len(ifile.rows) = 1
     /\ IsExampleRow(ifile.rows[1]))
    => /\ pc = "done"
       /\ srcEmis["PMc"]["AAA"][CA].sum = 6
       /\ snap2["PM10"]["AAA"] = 6

\* C3 amended: when the example row is the only row of AAA and C:A in a
\* table on which readCams returns (so with two distinct longitudes and
\* latitudes), the PMc sum of AAA, C:A is 6, snap2 PMc of AAA is 6 and snap2
\* PM10 of AAA is the PM10 value 10
C3_Amended ==
    (/\ ExampleCallEnded
     /\ pc = "done"
     /\ \E i \in DOMAIN ifile.rows :
           /\ IsExampleRow(ifile.rows[i])
           /\ \A j \in DOMAIN ifile.rows :
                 (j # i /\ ifile.rows[j].iso3 = "AAA") => RowSrc(j) # CA)
    => /\ srcEmis["PMc"]["AAA"][CA].sum = 6
       /\ snap2["PMc"]["AAA"] = 6
       /\ snap2["PM10"]["AAA"] = 10

C3_Witness ==
    /\ ExampleCallEnded
    /\ pc = "done"
    /\ \E i \in DOMAIN ifile.rows : IsExampleRow(ifile.rows[i])
    /\ Cardinality({j \in DOMAIN ifile.rows :
                       ifile.rows[j].iso3 = "AAA" /\ RowSrc(j) = CA}) = 1
    /\ srcEmis["PMc"]["AAA"][CA].sum = 6

\* the working list C8 states for a filter
C8_StatedList(wp) ==
    IF wp = <<"PM">> THEN <<"PM2_5", "PM10", "PMc">>
    ELSE IF wp = <<>> THEN polls
    ELSE wp

\* C8 as stated: the result's 'polls' and the pollutants aggregated are the
\* three particulate species for 'PM', the one species for a named species
\* (PMc among them), the default list when unset
C8_AsStated ==
    pc = "done" =>
        /\ res_polls = C8_StatedList(arg_wanted)
        /\ DOMAIN srcEmis = Range(C8_StatedList(arg_wanted))

\* C8 amended: as stated, but the filter 'PMc' gives the three particulate
\* species PM2_5, PM10, PMc, as 'PM' does
C8_Amended ==
    pc = "done" =>
        LET want == IF arg_wanted = <<"PMc">>
                    THEN <<"PM2_5", "PM10", "PMc">>
                    ELSE C8_StatedList(arg_wanted)
        IN  /\ res_polls = want
            /\ DOMAIN srcEmis = Range(want)

C8_Witness ==
    /\ pc = "done"
    /\ arg_wanted = <<"PMc">>
    /\ DOMAIN srcEmis = {"PM2_5", "PM10", "PMc"}

\* the distinct longitudes and latitudes of the file, sorted
FileLons == Sorted({ifile.rows[i].lon : i \in DOMAIN ifile.rows})
FileLats == Sorted({ifile.rows[i].lat : i \in DOMAIN ifile.rows})

\* at least two values, all consecutive gaps equal
Uniform(coords) ==
    /\ Len(coords) >= 2
    /\ \A i \in 2..Len(coords) : coords[i] - coords[i - 1] = coords[2] - coords[1]

\* the 0-based place of c in the sorted distinct coordinates
Rank(c, coords) == (CHOOSE k \in DOMAIN coords : coords[k] = c) - 1

GridErrors == {"IndexError", "ZeroDivisionError", "x Coordinate problem",
               "y Coordinate problem", "OOPSXY"}

\* the grid checks passed and every row of the file has, as its cell, the
\* places of its longitude and latitude; with grids wanted, a processed row's
\* values are in that cell
RowsInOwnCells ==
    /\ err \notin GridErrors
    /\ pc \in {"poll", "rows", "done"} =>
          /\ grid.xmin + grid.nlons * grid.dx > grid.xmax
          /\ grid.ymin + grid.nlats * grid.dy > grid.ymax
          /\ \A i \in DOMAIN ifile.rows :
                LET r  == ifile.rows[i]
                    ix == CellIndex(r.lon, grid.xmin, grid.dx)
                    iy == CellIndex(r.lat, grid.ymin, grid.dy)
                IN  /\ 0 <= ix /\ ix < grid.nlons
                    /\ 0 <= iy /\ iy < grid.nlats
                    /\ ix = Rank(r.lon, FileLons)
                    /\ iy = Rank(r.lat, FileLats)
    /\ (pc = "done" /\ get_vals) =>
          \A p \in DOMAIN srcEmis, i \in DOMAIN ifile.rows :
              LET r == ifile.rows[i]
                  same == {j \in DOMAIN ifile.rows :
                              /\ ifile.rows[j].iso3 = r.iso3
                              /\ RowSrc(j) = RowSrc(i)
                              /\ ifile.rows[j].lon = r.lon
                              /\ ifile.rows[j].lat = r.lat}
              IN  srcEmis[p][r.iso3][RowSrc(i)].vals
                         [Rank(r.lat, FileLats)][Rank(r.lon, FileLons)]
                  = SumSet(same, [j \in same |-> RowVal(j, p)])

\* C9 as stated: for every table whose distinct longitudes and latitudes
\* are uniformly spaced, two or more per axis, the grid checks pass and the
\* row at the k-th longitude (latitude) gets column (row) k, in bounds
C9_AsStated ==
    (Uniform(FileLons) /\ Uniform(FileLats)) => RowsInOwnCells

\* the spacing is a whole number of 1e-6 and at least 2e-6
WholeSpacing(coords) ==
    /\ (coords[2] - coords[1]) % NiceUnit = 0
    /\ coords[2] - coords[1] >= 2 * NiceUnit

\* C9 amended: the same, for tables whose spacing on each axis is a whole
\* multiple of 1e-6 (the decimals nicefloat keeps) and at least 2e-6
C9_Amended ==
    (/\ Uniform(FileLons) /\ Uniform(FileLats)
     /\ WholeSpacing(FileLons) /\ WholeSpacing(FileLats))
    => RowsInOwnCells

C9_Witness ==
    /\ Uniform(FileLons) /\ Uniform(FileLats)
    /\ WholeSpacing(FileLons) /\ WholeSpacing(FileLats)
    /\ Len(FileLons) >= 3
    /\ FileLons[1] % NiceUnit # 0
    /\ pc = "done"
    /\ get_vals
    /\ RowsInOwnCells

\* the cells of all grids that differ between this state and the next
ChangedCells ==
    {q \in UNION {{<<p, c, s, iy, ix>> :
                     iy \in DOMAIN srcEmis[p][c][s].vals,
                     ix \in 0..(grid.nlons - 1)} :
                  p \in DOMAIN srcEmis, c \in iso3s, s \in srcs} :
        srcEmis'[q[1]][q[2]][q[3]].vals[q[4]][q[5]]
            # srcEmis[q[1]][q[2]][q[3]].vals[q[4]][q[5]]}

\* with grids wanted: a real country's real source has a grid that sums to
\* its 'sum'; the grids of EurTot and of Sum:secs are all zero
C10_GridsInv ==
    get_vals =>
        \A p \in DOMAIN srcEmis, c \in iso3s, s \in srcs :
            IF c = EurTot \/ s = countryTot
            THEN \A iy \in DOMAIN srcEmis[p][c][s].vals :
                     \A ix \in DOMAIN srcEmis[p][c][s].vals[iy] :
                         srcEmis[p][c][s].vals[iy][ix] = 0
            ELSE GridSum(srcEmis[p][c][s].vals) = srcEmis[p][c][s].sum

\* a processed row adds its value to one cell of the grid of its own
\* pollutant, country and source, and to no other cell of any grid (a row
\* of value 0 leaves every cell as it was)
C10_RowStep ==
    (pc = "rows" /\ get_vals /\ n' = n + 1) =>
        LET p == res_polls[pi]
            r == ifile.rows[n + 1]
        IN  /\ Cardinality(ChangedCells) =
                   (IF RowVal(n + 1, p) = 0 THEN 0 ELSE 1)
            /\ \A q \in ChangedCells :
                   q[1] = p /\ q[2] = r.iso3 /\ q[3] = RowSrc(n + 1)

\* C10: with spatial grids wanted, after every row the cells of a real
\* country's real source sum to its 'sum', a row changes exactly one cell of
\* one grid, and the grids of the aggregates EurTot and Sum:secs stay zero
\* while their sums grow
C10_Grids == [](C10_GridsInv) /\ [][C10_RowStep]_vars

C10_Witness ==
    /\ pc = "done"
    /\ get_vals
    /\ Cardinality(RealCountries) >= 2
    /\ \E p \in DOMAIN srcEmis :
          /\ srcEmis[p][EurTot][countryTot].sum > 0
          /\ GridSum(srcEmis[p][EurTot][countryTot].vals) = 0
          /\ \E c \in RealCountries, s \in RealSrcs :
                GridSum(srcEmis[p][c][s].vals) > 0

(***************************************************************************)
(* plotdiurnal.py: makediurnal                                             *)
(***************************************************************************)
\* line 8: the default of dend
DefaultDend == 367
\* line 27: the bound the assertion puts on dstart
DstartLimit == 367

\* the sample obs[i]: a number, or not-a-number, or an infinity.  A valid
\* sample of hour g is g on every day (hour 0 holds the valid value 0).
obs(i) ==
    IF i \in bad
    THEN CASE badkind = "neg" -> [kind |-> "num", v |-> -1]
           [] badkind = "nan" -> [kind |-> "nan", v |-> 0]
           [] OTHER           -> [kind |-> "inf", v |-> 0]
    ELSE [kind |-> "num", v |-> i % 24]

\* the modelled value mod[i] (finite)
mod(i) == 2 * (i % 24) + 1 + (i \div 24)

\* np.isfinite(o)
isfinite(o) == o.kind = "num"

\* the parameters dstart and dend as bound by the call (line 8)
dstart == IF dstart_arg = <<>> THEN 0 ELSE dstart_arg[1]
dend == IF dend_arg = <<>> THEN DefaultDend ELSE dend_arg[1]

haveModelled == nmod > 0

\* where the invalid samples of a series can be
BadPlaces == {0, 1, 23, 24, 25, 47}

DstartArgs == {<<>>, <<0>>, <<1>>, <<DstartLimit>>}
DendArgs == {<<>>, <<1>>, <<2>>}

InitDiurnal ==
    /\ \/ /\ nobs \in {24 * d : d \in 1..MaxDays}
          /\ bad \in {B \in SUBSET {i \in BadPlaces : i < nobs} :
                         Cardinality(B) <= 2}
          /\ badkind \in IF bad = {} THEN {"neg"} ELSE {"neg", "nan", "inf"}
          /\ nmod \in {0, nobs, nobs - 1}
          /\ dstart_arg \in DstartArgs
          /\ dend_arg \in DendArgs
       \/ /\ nobs = 24 * (DefaultDend + 1)
          /\ bad = {}
          /\ badkind = "neg"
          /\ nmod = 0
          /\ dstart_arg = <<>>
          /\ dend_arg = <<>>
    /\ dpc = "start"
    /\ o24 = [g \in Hours |-> 0]
    /\ n24 = [g \in Hours |-> 0]
    /\ m24 = [g \in Hours |-> 0]
    /\ ndays = 0 /\ h = 0 /\ doy = 0 /\ dn = 0 /\ ret = <<>>
    /\ ifile = NoFrame /\ df = NoFrame
    /\ arg_wanted = <<>> /\ wanted_poll = <<>> /\ get_vals = FALSE
    /\ pc = "off" /\ err = ""
    /\ used_polls = <<>> /\ iso3s = {} /\ srcs = {} /\ grid = NoGrid
    /\ res_polls = <<>> /\ srcEmis = <<>> /\ snap2 = <<>>
    /\ pi = 0 /\ n = 0

\* lines 16-30: the arrays, the assertions on the arguments, ndays
Setup ==
    /\ dpc = "start"
    /\ IF haveModelled /\ nobs # nmod
       THEN /\ dpc' = "abort"
            /\ ndays' = nobs \div 24
            /\ m24' = m24
       ELSE /\ m24' = IF haveModelled THEN [g \in Hours |-> 0] ELSE "NotSet"
            /\ IF dstart > 0 /\ ~(dstart < DstartLimit)
               THEN dpc' = "abort" /\ ndays' = nobs \div 24
               ELSE /\ dpc' = "loop"
                    /\ ndays' = IF dstart > 0 THEN dend - dstart
                                ELSE nobs \div 24
    /\ o24' = [g \in Hours |-> 0]
    /\ n24' = [g \in Hours |-> 0]
    /\ h' = 0 /\ doy' = 0 /\ dn' = 0
    /\ UNCHANGED <<nobs, bad, badkind, nmod, dstart_arg, dend_arg, ret, cvars>>

\* lines 31-40: one sample of the walk over obs
Sample ==
    /\ dpc = "loop"
    /\ dn < nobs
    /\ LET o == obs(dn)
       IN  IF isfinite(o) /\ o.v >= 0
           THEN /\ IF dstart <= doy /\ doy < dend
                   THEN /\ o24' = [o24 EXCEPT ![h] = @ + o.v]
                        /\ n24' = [n24 EXCEPT ![h] = @ + 1]
                        /\ m24' = IF haveModelled
                                  THEN [m24 EXCEPT ![h] = @ + mod(dn)]
                                  ELSE m24
                   ELSE UNCHANGED <<o24, n24, m24>>
                /\ h' = IF h + 1 = 24 THEN 0 ELSE h + 1
                /\ doy' = IF h + 1 = 24 THEN doy + 1 ELSE doy
           ELSE UNCHANGED <<o24, n24, m24, h, doy>>
    /\ dn' = dn + 1
    /\ UNCHANGED <<nobs, bad, badkind, nmod, dstart_arg, dend_arg, dpc, ndays,
                   ret, cvars>>

\* a quotient num/den; nan marks np.nan
Quot(num, den) == [nan |-> FALSE, num |-> num, den |-> den]
NaN == [nan |-> TRUE, num |-> 0, den |-> 1]

\* lines 41-52: the means per hour and the returned tuple
Means ==
    /\ dpc = "loop"
    /\ dn = nobs
    /\ LET mean(sums) == [g \in Hours |->
                             IF n24[g] > 0 THEN Quot(sums[g], n24[g]) ELSE NaN]
           cap == [g \in Hours |-> Quot(100 * n24[g], ndays)]
       IN  /\ o24' = mean(o24)
           /\ m24' = IF haveModelled THEN mean(m24) ELSE m24
           /\ ret' = IF haveModelled THEN <<mean(o24), mean(m24), cap>>
                     ELSE <<mean(o24), cap>>
    /\ dpc' = "done"
    /\ UNCHANGED <<nobs, bad, badkind, nmod, dstart_arg, dend_arg, n24, ndays,
                   h, doy, dn, cvars>>

NextDiurnal ==
    \/ Setup
    \/ Sample
    \/ Means

SpecDiurnal == InitDiurnal /\ [][NextDiurnal]_vars

(***************************************************************************)
(* makediurnal: what the claims speak of                                   *)
(***************************************************************************)
valid(i) == isfinite(obs(i)) /\ obs(i).v >= 0

\* the samples that belong to hour g by their index, day i div 24 being in
\* the window, and are valid
OwnSamples(g) ==
    {i \in 0..(nobs - 1) :
        /\ i % 24 = g
        /\ valid(i)
        /\ dstart <= i \div 24 /\ i \div 24 < dend}

\* the returned means and capture percentages
RetMeans == ret[1]
RetCapture == ret[Len(ret)]

\* C4: the sample at index n belongs to hour n mod 24 and day n div 24,
\* valid or not: every hour's count and sum are those of its own valid
\* samples, and an hour with no valid sample has a not-a-number mean and a
\* capture of 0.  Stated for the calls without a day window on at most
\* DefaultDend days, where every day of the series is inside the window.
C4_AsStated ==
    (/\ dpc = "done"
     /\ dstart_arg = <<>> /\ dend_arg = <<>>
     /\ nobs <= 24 * DefaultDend) =>
        \A g \in Hours :
            /\ n24[g] = Cardinality(OwnSamples(g))
            /\ IF OwnSamples(g) = {}
               THEN RetMeans[g].nan /\ RetCapture[g].num = 0
               ELSE /\ ~RetMeans[g].nan
                    /\ RetMeans[g].num =
                          SumSet(OwnSamples(g),
                                 [i \in OwnSamples(g) |-> obs(i).v])

\* C5: without a day window, on D >= 1 whole days that repeat the same 24
\* valid values, the means are those values and every capture is 100
C5_AsStated ==
    (dpc = "done" /\ dstart_arg = <<>> /\ dend_arg = <<>> /\ bad = {}) =>
        \A g \in Hours :
            /\ ~RetMeans[g].nan
            /\ RetMeans[g].num = obs(g).v * RetMeans[g].den
            /\ RetCapture[g].den # 0
            /\ RetCapture[g].num = 100 * RetCapture[g].den

\* the days a full capture has, as C6 states them, for the calls it covers
C6_ExpectedDays ==
    IF dstart_arg # <<>> /\ dend_arg # <<>> THEN dend - dstart
    ELSE nobs \div 24

\* C6: the capture of hour g is 100 * count / expectedDays, expectedDays
\* being end - start when a window is given (also one that starts at day 0)
\* and len(obs)/24 when none is given
C6_AsStated ==
    (/\ dpc = "done"
     /\ (dstart_arg = <<>>) = (dend_arg = <<>>)) =>
        \A g \in Hours :
            /\ RetCapture[g].num = 100 * n24[g]
            /\ RetCapture[g].num * C6_ExpectedDays
                   = 100 * n24[g] * RetCapture[g].den

\* the usage errors of C7: a modelled series of another length; a start
\* (after day 0, so that the call differs from one without a window) with
\* no end; an end that is not after the start
C7_UsageError ==
    \/ nmod > 0 /\ nmod # nobs
    \/ dstart_arg # <<>> /\ dstart > 0 /\ dend_arg = <<>>
    \/ dstart_arg # <<>> /\ dend_arg # <<>> /\ ~(dend > dstart)

\* C7: on a usage error makediurnal aborts before it reads a sample and
\* returns nothing
C7_AsStated ==
    (C7_UsageError /\ dpc # "start") =>
        dpc = "abort" /\ dn = 0 /\ ret = <<>>

====
